---------------------------- MODULE Spec2Model ----------------------------
(***************************************************************************)
(* A model of the retrieval and ranking engine of the RAG chatbot:         *)
(*   - PDFProcessor.chunk_text            (src/pdf_processor.py)           *)
(*   - IngestionPipeline._is_visual_query (src/ingestion_pipeline.py)      *)
(*   - IngestionPipeline.search_documents (src/ingestion_pipeline.py)      *)
(*   - IngestionPipeline.process_pdf_file (src/ingestion_pipeline.py)      *)
(*   - QdrantService.search_text_similar  (src/qdrant_service.py)          *)
(*   - QdrantService.search_images_similar (src/qdrant_service.py)         *)
(*   - RAGService._extract_keywords       (src/rag_service.py)             *)
(*   - RAGService._extract_any_references (src/rag_service.py)             *)
(*   - RAGService._smart_retrieval        (src/rag_service.py)             *)
(*   - RAGService.generate_answer         (src/rag_service.py)             *)
(*   - main, the chat session             (src/app.py)                     *)
(* Strings are sequences of one-character strings, so that splitting,      *)
(* lower-casing and substring search are computed and not assumed.         *)
(* Scores are fixed-point numbers: 100 stands for the similarity 1.0.      *)
(***************************************************************************)
EXTENDS Integers, Sequences, FiniteSets, TLC

VARIABLES
    \* ---- PDFProcessor.chunk_text ----
    text,            \* the input text
    chunk_size,      \* self.chunk_size
    sections,        \* re.split(r'\n\s*\n', text)
    sec_i,           \* position of the for loop over sections
    current_chunk,   \* the sections of the chunk being accumulated
    current_size,    \* its running word count
    chunks,          \* the chunks emitted so far
    seg_pc,          \* position in chunk_text
    \* ---- IngestionPipeline._is_visual_query ----
    query,           \* the query string
    is_visual,       \* the value returned
    cls_pc,          \* position in _is_visual_query
    \* ---- the vector index (external, persistent) ----
    index_text,      \* the points of the text collection
    index_images,    \* the points of the image collection
    \* ---- RAGService.generate_answer and _smart_retrieval ----
    question,        \* the question asked
    top_k,           \* the top_k of generate_answer
    pc,              \* position in generate_answer / _smart_retrieval
    all_results,     \* the candidates of all stages, in stage order
    keywords,        \* self._extract_keywords(question)
    kw_i,            \* position of the loop over keywords
    numbers_terms,   \* self._extract_any_references(question)
    ref_i,           \* position of the loop over numbers_terms
    unique_results,  \* the candidates left by the duplicate removal
    relevant_docs,   \* the list _smart_retrieval returns
    retrieval_error, \* the place where _smart_retrieval raised, or "none"
    response,        \* the dict generate_answer returns
    last_search,     \* the last call of search_documents and what it returned
    n_embed,         \* calls of the embedding provider so far
    n_text_search,   \* searches of the text collection so far
    n_image_search,  \* searches of the image collection so far
    fan_hits,        \* fan-out searches that found a point so far
    n_failures,      \* calls of an external service that failed so far
    \* ---- IngestionPipeline.process_pdf_file, called by the upload loop ----
    batch,           \* the uploaded documents
    doc_i,           \* position of the loop over the uploaded documents
    ing_pc,          \* position in process_pdf_file
    text_chunks,     \* the chunks process_pdf returned
    images_info,     \* the images process_pdf returned
    results,         \* the dicts process_pdf_file returned, one per document
    \* ---- the chat session of app.py (st.session_state) ----
    messages,            \* st.session_state.messages
    uploaded_files_info, \* st.session_state.uploaded_files_info
    chat_pc              \* position in the chat input handler of main

segVars == <<text, chunk_size, sections, sec_i, current_chunk, current_size,
             chunks, seg_pc>>

clsVars == <<query, is_visual, cls_pc>>

idxVars == <<index_text, index_images>>

retVars == <<question, top_k, pc, all_results, keywords, kw_i, numbers_terms,
             ref_i, unique_results, relevant_docs, retrieval_error, response,
             last_search, n_embed, n_text_search, n_image_search, fan_hits,
             n_failures>>

ingVars == <<batch, doc_i, ing_pc, text_chunks, images_info, results>>

chatVars == <<messages, uploaded_files_info, chat_pc>>

vars == <<segVars, clsVars, idxVars, retVars, ingVars, chatVars>>

\* The variables each component leaves alone.
notSeg == <<clsVars, idxVars, retVars, ingVars, chatVars>>

notCls == <<segVars, idxVars, retVars, ingVars, chatVars>>

notRet == <<segVars, clsVars, idxVars, ingVars, chatVars>>

notIng == <<segVars, clsVars, retVars, chatVars>>

notChat == <<segVars, clsVars, retVars, ingVars>>

\* Lines 23-29 of app.py: the session state of a new session.
ChatIdle ==
    /\ messages = <<>>
    /\ uploaded_files_info = <<>>
    /\ chat_pc = "idle"

\* No document is being ingested.
IngIdle ==
    /\ batch = <<>>
    /\ doc_i = 0
    /\ ing_pc = "idle"
    /\ text_chunks = <<>>
    /\ images_info = <<>>
    /\ results = <<>>

(***************************************************************************)
(* Bounds of the model.                                                    *)
(***************************************************************************)
MaxTextLen == 8
MaxChunkSize == 2
MaxFragments == 2
MaxIndexSize == 2
MaxImages == 1
MaxTopK == 1
MaxFanOutHits == 1
MaxFailures == 1
MaxCandidates == 4

(***************************************************************************)
(* Strings.                                                                *)
(***************************************************************************)
Chars == {"a", " ", "\n"}

\* str.split() and the regular expression class \s: the whitespace characters.
IsWs(c) == c \in {" ", "\n", "\t"}

Max(S) == CHOOSE x \in S : \A y \in S : y <= x

Min(S) == CHOOSE x \in S : \A y \in S : x <= y

\* All strings over alphabet A of length at most n.
StringsUpTo(A, n) == UNION {[1..k -> A] : k \in 0..n}

\* len(s.split()): the number of maximal runs of non-whitespace characters.
WordCount(s) ==
    Cardinality({i \in 1..Len(s) : /\ ~IsWs(s[i])
                                   /\ (i = 1 \/ IsWs(s[i-1]))})

\* The last position of the whitespace run that starts at position i.
WsRunEnd(s, i) ==
    CHOOSE k \in i..Len(s) : /\ \A m \in i..k : IsWs(s[m])
                             /\ (k = Len(s) \/ ~IsWs(s[k+1]))

\* A match of \n\s*\n that starts at the newline at position i: the position
\* of its last character (\s* is greedy, so the last newline of the
\* whitespace run), or 0 when there is no match at i.
MatchEnd(s, i) ==
    LET e     == WsRunEnd(s, i)
        cands == {j \in (i+1)..e : s[j] = "\n"}
    IN  IF cands = {} THEN 0 ELSE Max(cands)

\* The leftmost match of \n\s*\n at or after position p, or 0.
NextMatch(s, p) ==
    LET starts == {i \in p..Len(s) : s[i] = "\n" /\ MatchEnd(s, i) # 0}
    IN  IF starts = {} THEN 0 ELSE Min(starts)

RECURSIVE SplitFrom(_, _)
SplitFrom(s, p) ==
    LET i == NextMatch(s, p)
    IN  IF i = 0
        THEN <<SubSeq(s, p, Len(s))>>
        ELSE <<SubSeq(s, p, i - 1)>> \o SplitFrom(s, MatchEnd(s, i) + 1)

\* re.split(r'\n\s*\n', text)
SplitSections(s) == SplitFrom(s, 1)

\* sep.join(parts)
RECURSIVE Join(_, _)
Join(parts, sep) ==
    IF parts = <<>> THEN <<>>
    ELSE IF Len(parts) = 1 THEN parts[1]
    ELSE parts[1] \o sep \o Join(Tail(parts), sep)

UpperChars == <<"A", "B", "C", "D", "E", "F", "G", "H", "I", "J", "K", "L", "M",
               "N", "O", "P", "Q", "R", "S", "T", "U", "V", "W", "X", "Y", "Z">>

LowerChars == <<"a", "b", "c", "d", "e", "f", "g", "h", "i", "j", "k", "l", "m",
               "n", "o", "p", "q", "r", "s", "t", "u", "v", "w", "x", "y", "z">>

\* str.lower(), one character.
LowerChar(c) ==
    IF \E i \in 1..Len(UpperChars) : UpperChars[i] = c
    THEN LowerChars[CHOOSE i \in 1..Len(UpperChars) : UpperChars[i] = c]
    ELSE c

\* A lower() that was forgotten.
LowerIdentity(s) == s

\* str.lower()
Lower(s) == [i \in 1..Len(s) |-> LowerChar(s[i])]

StartsWith(s, k) == Len(k) <= Len(s) /\ SubSeq(s, 1, Len(k)) = k

\* k in s: substring search, scanning s from the left.
RECURSIVE Contains(_, _)
Contains(s, k) ==
    IF StartsWith(s, k) THEN TRUE
    ELSE IF s = <<>> THEN FALSE
    ELSE Contains(Tail(s), k)

(***************************************************************************)
(* IngestionPipeline._is_visual_query                                      *)
(***************************************************************************)
\* The list visual_keywords of lines 75-79.
visual_keywords ==
    <<<<"f", "i", "g", "u", "r", "e">>,
      <<"f", "i", "g">>,
      <<"d", "i", "a", "g", "r", "a", "m">>,
      <<"c", "h", "a", "r", "t">>,
      <<"g", "r", "a", "p", "h">>,
      <<"i", "m", "a", "g", "e">>,
      <<"p", "i", "c", "t", "u", "r", "e">>,
      <<"i", "l", "l", "u", "s", "t", "r", "a", "t", "i", "o", "n">>,
      <<"s", "c", "r", "e", "e", "n", "s", "h", "o", "t">>,
      <<"p", "h", "o", "t", "o">>,
      <<"t", "a", "b", "l", "e">>,
      <<"s", "h", "o", "w", " ", "m", "e">>,
      <<"d", "i", "s", "p", "l", "a", "y">>,
      <<"v", "i", "s", "u", "a", "l">>,
      <<"d", "r", "a", "w", "i", "n", "g">>,
      <<"p", "l", "o", "t">>,
      <<"m", "a", "p">>>>

\* Lines 81-82: any(keyword in query_lower for keyword in visual_keywords).
IsVisualQuery(q) ==
    LET query_lower == Lower(q)
    IN  \E i \in 1..Len(visual_keywords) :
            Contains(query_lower, visual_keywords[i])

ShowMeTheDiagram == <<"s", "h", "o", "w", " ", "m", "e", " ", "t", "h", "e", " ",
      "d", "i", "a", "g", "r", "a", "m", " ", "o", "n", " ", "p", "a", "g", "e", " ", "5">>

RefundPolicy == <<"w", "h", "a", "t", " ", "i", "s", " ", "t", "h", "e", " ",
      "r", "e", "f", "u", "n", "d", " ", "p", "o", "l", "i", "c", "y">>

\* Pieces the queries of the model are put together from: words of the
\* vocabulary, whole and in halves, in both cases, and words outside it.
QueryFragments ==
    {ShowMeTheDiagram, RefundPolicy,
     <<"s", "h", "o", "w">>, <<" ", "m", "e">>, <<"m", "e">>, <<" ">>, <<"t", "a", "b">>,
     <<"l", "e">>, <<"F", "i", "g">>, <<"M", "A", "P">>, <<"r", "e", "f", "u", "n", "d">>, <<"p", "l", "o">>}

RECURSIVE Concat(_)
Concat(ss) == IF ss = <<>> THEN <<>> ELSE ss[1] \o Concat(Tail(ss))

Queries == {Concat(fs) : fs \in StringsUpTo(QueryFragments, MaxFragments)}

ClsIdle ==
    /\ query = <<>>
    /\ is_visual = FALSE
    /\ cls_pc = "idle"

ClsInit ==
    /\ query \in Queries
    /\ is_visual = FALSE
    /\ cls_pc = "call"

\* Lines 73-82: the query is classified.
ClsClassify ==
    /\ cls_pc = "call"
    /\ is_visual' = IsVisualQuery(query)
    /\ cls_pc' = "done"
    /\ UNCHANGED query
    /\ UNCHANGED notCls

(***************************************************************************)
(* RAGService._extract_keywords and RAGService._extract_any_references     *)
(***************************************************************************)
\* str.split(): the maximal runs of non-whitespace characters, in order.
RECURSIVE SplitWords(_)
SplitWords(s) ==
    IF s = <<>> THEN <<>>
    ELSE IF IsWs(s[1]) THEN SplitWords(Tail(s))
    ELSE LET ends == {k \in 1..Len(s) : k = Len(s) \/ IsWs(s[k+1])}
             e    == Min(ends)
         IN  <<SubSeq(s, 1, e)>> \o SplitWords(SubSeq(s, e + 1, Len(s)))

\* The characters of word.strip('.,!?;:"()') at line 175.
StripChars == {".", ",", "!", "?", ";", ":", "\"", "(", ")"}

\* str.strip(chars): leading and trailing characters of the set removed.
RECURSIVE Strip(_)
Strip(w) ==
    IF w = <<>> THEN <<>>
    ELSE IF w[1] \in StripChars THEN Strip(Tail(w))
    ELSE IF w[Len(w)] \in StripChars THEN Strip(SubSeq(w, 1, Len(w) - 1))
    ELSE w

\* The set stop_words of line 173.
stop_words ==
    {<<"w", "h", "a", "t">>, <<"i", "s">>, <<"t", "h", "i", "s">>,
     <<"d", "o", "c", "u", "m", "e", "n", "t">>, <<"a", "b", "o", "u", "t">>,
     <<"w", "h", "o">>, <<"h", "o", "w">>, <<"w", "h", "e", "n">>,
     <<"w", "h", "e", "r", "e">>, <<"w", "h", "y">>, <<"t", "h", "e">>,
     <<"a">>, <<"a", "n">>, <<"a", "n", "d">>, <<"o", "r">>, <<"b", "u", "t">>,
     <<"i", "n">>, <<"o", "n">>, <<"a", "t">>, <<"t", "o">>, <<"f", "o", "r">>,
     <<"o", "f">>, <<"w", "i", "t", "h">>}

RECURSIVE SelectSeq2(_, _)
SelectSeq2(ws, keep) ==
    IF ws = <<>> THEN <<>>
    ELSE IF ws[1] \in keep THEN <<ws[1]>> \o SelectSeq2(Tail(ws), keep)
    ELSE SelectSeq2(Tail(ws), keep)

\* Lines 174-176: the words of the lower-cased question that are no stop
\* word and longer than 2 characters (both tested before stripping), each
\* stripped of its punctuation.
ExtractKeywords(q) ==
    LET words == SplitWords(Lower(q))
        kept  == SelectSeq2(words, {words[i] : i \in
                     {j \in 1..Len(words) : /\ Lower(words[j]) \notin stop_words
                                            /\ Len(words[j]) > 2}})
    IN  [i \in 1..Len(kept) |-> Strip(kept[i])]

Digits == {"0", "1", "2", "3", "4", "5", "6", "7", "8", "9"}

\* The end of the run of characters of set S that starts at position i,
\* or i - 1 when s[i] is not in S.
RunEnd(s, i, S) ==
    IF i > Len(s) \/ s[i] \notin S THEN i - 1
    ELSE CHOOSE k \in i..Len(s) : /\ \A m \in i..k : s[m] \in S
                                  /\ (k = Len(s) \/ s[k+1] \notin S)

\* A match of  prefix\s*(\d+)  at position i: <<first, last>> of its group
\* of digits, or <<0, 0>>.
MatchAt(s, i, prefix) ==
    IF ~StartsWith(SubSeq(s, i, Len(s)), prefix) THEN <<0, 0>>
    ELSE LET d == RunEnd(s, i + Len(prefix), {" ", "\n", "\t"}) + 1
             e == RunEnd(s, d, Digits)
         IN  IF e >= d THEN <<d, e>> ELSE <<0, 0>>

\* re.findall(prefix\s*(\d+), s): the groups of the matches found from
\* position i on, left to right and not overlapping.
RECURSIVE FindAllFrom(_, _, _)
FindAllFrom(s, i, prefix) ==
    IF i > Len(s) THEN <<>>
    ELSE LET m == MatchAt(s, i, prefix)
         IN  IF m = <<0, 0>> THEN FindAllFrom(s, i + 1, prefix)
             ELSE <<SubSeq(s, m[1], m[2])>> \o FindAllFrom(s, m[2] + 1, prefix)

\* The prefixes of the patterns of lines 139-151; the last is the bare (\d+).
ReferencePatterns ==
    <<<<"c", "h", "a", "p", "t", "e", "r">>,
      <<"c", "h">>,
      <<"s", "e", "c", "t", "i", "o", "n">>,
      <<"p", "a", "r", "t">>,
      <<"p", "a", "g", "e">>,
      <<"p">>,
      <<"l", "e", "s", "s", "o", "n">>,
      <<"u", "n", "i", "t">>,
      <<"m", "o", "d", "u", "l", "e">>,
      <<"e", "x", "e", "r", "c", "i", "s", "e">>,
      <<>> >>

\* The strings added for one match at lines 157-166, before the match.
ReferenceWords ==
    <<<<"c", "h", "a", "p", "t", "e", "r", " ">>,
      <<"s", "e", "c", "t", "i", "o", "n", " ">>,
      <<"p", "a", "r", "t", " ">>,
      <<"p", "a", "g", "e", " ">>,
      <<"l", "e", "s", "s", "o", "n", " ">>,
      <<"u", "n", "i", "t", " ">>,
      <<"m", "o", "d", "u", "l", "e", " ">>,
      <<>> >>

\* Lines 153-168: the set of reference strings of the question.
ExtractAnyReferences(q) ==
    LET question_lower == Lower(q)
        matches == UNION {{ms[k] : k \in 1..Len(ms)} :
                          ms \in {FindAllFrom(question_lower, 1, ReferencePatterns[i]) :
                                  i \in 1..Len(ReferencePatterns)}}
    IN  {ReferenceWords[j] \o m : j \in 1..Len(ReferenceWords), m \in matches}

\* The elements of a set in one order.
RECURSIVE SetToSeq(_)
SetToSeq(S) ==
    IF S = {} THEN <<>>
    ELSE LET x == CHOOSE y \in S : TRUE
         IN  <<x>> \o SetToSeq(S \ {x})

Reverse(s) == [i \in DOMAIN s |-> s[Len(s) + 1 - i]]

\* list(set(references)): the order of the list is the one of the set's
\* hash table.  The model takes one order and its reverse.
ListsOfSet(S) == {SetToSeq(S), Reverse(SetToSeq(S))}

(***************************************************************************)
(* PDFProcessor.chunk_text                                                 *)
(***************************************************************************)
Filename == "doc.pdf"

BlankLine == <<"\n", "\n">>

\* The test of line 131, and the way a bug would change it.
FitsIgnoringCurrent(cur, size, budget) == size <= budget

\* A test that closes a chunk which the section would fill exactly.
FitsStrictly(cur, size, budget) == cur + size < budget

Fits(cur, size, budget) == cur + size <= budget

\* The chunk restarted at line 148, and the way a bug would change it.
RestartEmpty(section) == <<>>

RestartChunk(section) == <<section>>

\* A character of the regular expression class \w.
IsWordChar(c) ==
    \/ c \in Digits \cup {"_"}
    \/ \E i \in 1..Len(LowerChars) : c = LowerChars[i] \/ c = UpperChars[i]

\* Line 143, the has_code pattern: three backquotes, or one of the words
\* def, class, import, from between word boundaries.  The backquote
\* character is written "backquote".
HasCode(s) ==
    \/ Contains(s, <<"backquote", "backquote", "backquote">>)
    \/ \E i \in 1..Len(s) :
         \E w \in {<<"d", "e", "f">>, <<"c", "l", "a", "s", "s">>,
                   <<"i", "m", "p", "o", "r", "t">>, <<"f", "r", "o", "m">>} :
            /\ StartsWith(SubSeq(s, i, Len(s)), w)
            /\ (i = 1 \/ ~IsWordChar(s[i-1]))
            /\ (i + Len(w) > Len(s) \/ ~IsWordChar(s[i + Len(w)]))

\* Line 144, the has_list pattern with re.M: a list bullet after the
\* whitespace that follows a line start, or a number followed by a dot.
\* The bullet character U+2022 is written "bullet".
HasList(s) ==
    \/ \E i \in 1..Len(s) :
         /\ s[i] \in {"-", "*", "bullet"}
         /\ \E k \in 1..i : /\ (k = 1 \/ s[k-1] = "\n")
                             /\ \A m \in k..(i - 1) : IsWs(s[m])
    \/ \E i \in 1..(Len(s) - 1) : s[i] \in Digits /\ s[i+1] = "."

\* Line 145, the has_table pattern: two bars on one line.
HasTable(s) ==
    \E i \in 1..Len(s), j \in 1..Len(s) :
        /\ i < j
        /\ s[i] = "|"
        /\ s[j] = "|"
        /\ \A m \in (i + 1)..(j - 1) : s[m] # "\n"

\* A chunk whose flags are those of its first section.
MakeChunkFlagsOfFirst(parts, size, n) ==
    [text       |-> Join(parts, BlankLine),
     filename   |-> Filename,
     chunk_id   |-> n,
     word_count |-> size,
     has_code   |-> HasCode(parts[1]),
     has_list   |-> HasList(parts[1]),
     has_table  |-> HasTable(parts[1])]

\* The dict appended at lines 137-147 and 154-164.
MakeChunk(parts, size, n) ==
    LET chunk_text == Join(parts, BlankLine)
    IN  [text       |-> chunk_text,
         filename   |-> Filename,
         chunk_id   |-> n,
         word_count |-> size,
         has_code   |-> HasCode(chunk_text),
         has_list   |-> HasList(chunk_text),
         has_table  |-> HasTable(chunk_text)]

SegInit ==
    /\ text \in StringsUpTo(Chars, MaxTextLen)
    /\ chunk_size \in 0..MaxChunkSize
    /\ sections = <<>>
    /\ sec_i = 0
    /\ current_chunk = <<>>
    /\ current_size = 0
    /\ chunks = <<>>
    /\ seg_pc = "split"
    /\ ClsIdle
    /\ IngIdle
    /\ ChatIdle

\* Lines 119-125: split on blank lines, start with an empty chunk.
SegSplit ==
    /\ seg_pc = "split"
    /\ sections' = SplitSections(text)
    /\ sec_i' = 1
    /\ seg_pc' = "loop"
    /\ UNCHANGED <<text, chunk_size, current_chunk, current_size, chunks>>
    /\ UNCHANGED notSeg

\* Lines 127-133: the section fits and joins the current chunk.
SegAppend ==
    /\ seg_pc = "loop"
    /\ sec_i <= Len(sections)
    /\ LET section      == sections[sec_i]
           section_size == WordCount(section)
       IN  /\ Fits(current_size, section_size, chunk_size)
           /\ current_chunk' = Append(current_chunk, section)
           /\ current_size' = current_size + section_size
    /\ sec_i' = sec_i + 1
    /\ UNCHANGED <<text, chunk_size, sections, chunks, seg_pc>>
    /\ UNCHANGED notSeg

\* Lines 134-149: the section overflows; the current chunk, if any, is
\* closed and a new one starts with the section.
SegClose ==
    /\ seg_pc = "loop"
    /\ sec_i <= Len(sections)
    /\ LET section      == sections[sec_i]
           section_size == WordCount(section)
       IN  /\ ~Fits(current_size, section_size, chunk_size)
           /\ chunks' = IF current_chunk # <<>>
                        THEN Append(chunks, MakeChunk(current_chunk,
                                                      current_size, Len(chunks)))
                        ELSE chunks
           /\ current_chunk' = RestartChunk(section)
           /\ current_size' = section_size
    /\ sec_i' = sec_i + 1
    /\ UNCHANGED <<text, chunk_size, sections, seg_pc>>
    /\ UNCHANGED notSeg

\* Lines 151-166: the last chunk is added and the chunks are returned.
SegLast ==
    /\ seg_pc = "loop"
    /\ sec_i > Len(sections)
    /\ chunks' = IF current_chunk # <<>>
                 THEN Append(chunks, MakeChunk(current_chunk, current_size,
                                               Len(chunks)))
                 ELSE chunks
    /\ seg_pc' = "done"
    /\ UNCHANGED <<text, chunk_size, sections, sec_i, current_chunk,
                   current_size>>
    /\ UNCHANGED notSeg

SegNext == SegSplit \/ SegAppend \/ SegClose \/ SegLast

SegIdle ==
    /\ text = <<>>
    /\ chunk_size = 0
    /\ sections = <<>>
    /\ sec_i = 0
    /\ current_chunk = <<>>
    /\ current_size = 0
    /\ chunks = <<>>
    /\ seg_pc = "idle"

(***************************************************************************)
(* The vector index: QdrantService over two collections.                   *)
(***************************************************************************)
\* Similarities the text collection can report for a point: below the
\* threshold of the text search, 0.5 and 1.0.
RawScores == {-10, 50, 100}

\* Similarities the image collection can report for a point: 0.2, which is
\* between the threshold of the text search and the one of the image
\* search, 0.5 and 1.0.
ImageRawScores == {20, 50, 100}

\* Config.SCORE_THRESHOLD, the threshold of search_text_similar.
SCORE_THRESHOLD == 0

\* The score_threshold of search_images_similar (0.3).
IMAGE_SCORE_THRESHOLD == 30

\* The image_limit search_documents passes to search_multimodal.
IMAGE_LIMIT == 5

\* The factor of the image boost (1.2), in tenths.
IMAGE_SCORE_BOOST == 12

\* The clamp of the image boost (1.0).
MAX_SCORE == 100

\* Config.MAX_CONTEXT_CHUNKS.
MAX_CONTEXT_CHUNKS == 12

Filenames == <<"doc.pdf", "notes.pdf">>

\* The i-th point a text collection of the model holds: the payload
\* add_documents writes for a chunk.
TextPointAt(i) ==
    [filename |-> Filenames[((i - 1) % 2) + 1], chunk_id |-> (i - 1) \div 2]

TextPoints(n) == {TextPointAt(i) : i \in 1..n}

\* The image points: complete ones carry every payload field
\* search_images_similar reads; the ones add_images writes do not.
ImageIds(n) == {"img" \o ToString(i) : i \in 1..n}

ImagePoints(n) == {[image_id |-> id, complete |-> c] :
                        id \in ImageIds(n), c \in BOOLEAN}

ImageCollections(n) ==
    {S \in SUBSET ImagePoints(n) :
        \A a \in S, b \in S : a.image_id = b.image_id => a = b}

Perms(S) ==
    {p \in [1..Cardinality(S) -> S] :
        \A i \in DOMAIN p, j \in DOMAIN p : p[i] = p[j] => i = j}

Prefix(s, n) == SubSeq(s, 1, Min({n, Len(s)}))

IsSortedDesc(s) ==
    \A i \in 1..(Len(s) - 1) : s[i].score >= s[i + 1].score

\* client.search: the points of the collection whose similarity to the
\* query vector reaches the threshold, most similar first, at most limit of
\* them.  The similarity of a point depends on the query vector, so every
\* assignment of similarities is a possible answer, and points of equal
\* similarity come in any order.
ClientSearch(points, limit, threshold, scores) ==
    UNION {
        LET above == {p \in points : f[p] >= threshold}
            ranked == {[i \in DOMAIN p |-> [point |-> p[i], score |-> f[p[i]]]] :
                          p \in Perms(above)}
        IN  {Prefix(r, limit) : r \in {q \in ranked : IsSortedDesc(q)}}
        : f \in [points -> scores]}

\* The dict search_text_similar builds from a hit.
TextHit(h) ==
    [content_type |-> "text", filename |-> h.point.filename,
     chunk_id |-> h.point.chunk_id, score |-> h.score]

\* The dict search_images_similar builds from a hit.
ImageHit(h) ==
    [content_type |-> "image", image_id |-> h.point.image_id,
     score |-> h.score]

MapSeq(F(_), s) == [i \in DOMAIN s |-> F(s[i])]

\* search_text_similar: the lists it can return; a failure of the client
\* is the outcome "error".
SearchTextSimilar(limit) ==
    {[status |-> "ok", hits |-> MapSeq(TextHit, r)] :
        r \in ClientSearch(index_text, limit, SCORE_THRESHOLD, RawScores)}
    \cup {[status |-> "error", hits |-> <<>>]}

\* An image search with the threshold of the text search.
SearchImagesTextThreshold(limit) ==
    {IF \E i \in DOMAIN r : ~r[i].point.complete
        THEN [status |-> "KeyError", hits |-> <<>>]
        ELSE [status |-> "ok", hits |-> MapSeq(ImageHit, r)] :
        r \in ClientSearch(index_images, limit, SCORE_THRESHOLD,
                           ImageRawScores)}
    \cup {[status |-> "error", hits |-> <<>>]}

\* search_images_similar: reading a payload field a hit does not carry
\* raises KeyError, which it re-raises as an Exception.
SearchImagesSimilar(limit) ==
    {IF \E i \in DOMAIN r : ~r[i].point.complete
        THEN [status |-> "KeyError", hits |-> <<>>]
        ELSE [status |-> "ok", hits |-> MapSeq(ImageHit, r)] :
        r \in ClientSearch(index_images, limit, IMAGE_SCORE_THRESHOLD,
                           ImageRawScores)}
    \cup {[status |-> "error", hits |-> <<>>]}

\* EmbeddingService.embed_single_text: the vector of one text, or the
\* error of the embedding provider.
EmbedSingleText == {"ok", "error"}

(***************************************************************************)
(* IngestionPipeline.search_documents                                      *)
(***************************************************************************)
\* The boost of an image score on a visual query: min(score * 1.2, 1.0).
BoostUnclamped(score) == (score * IMAGE_SCORE_BOOST) \div 10

BoostImageScore(score) == Min({(score * IMAGE_SCORE_BOOST) \div 10, MAX_SCORE})

BoostImage(r) == [r EXCEPT !.score = BoostImageScore(r.score)]

\* A list left in the order it has.
Unsorted(s) == s

\* A descending sort that is not stable: a result goes before the results
\* of equal score that stood before it.
RECURSIVE InsertBeforeEqual(_, _)
InsertBeforeEqual(x, s) ==
    IF s = <<>> THEN <<x>>
    ELSE IF Head(s).score > x.score
         THEN <<Head(s)>> \o InsertBeforeEqual(x, Tail(s))
         ELSE <<x>> \o s

\* list.sort(key=score, reverse=True): descending, and stable, so results
\* of equal score keep their order.
RECURSIVE InsertByScore(_, _)
InsertByScore(x, s) ==
    IF s = <<>> THEN <<x>>
    ELSE IF Head(s).score >= x.score
         THEN <<Head(s)>> \o InsertByScore(x, Tail(s))
         ELSE <<x>> \o s

RECURSIVE SortByScoreDesc(_)
SortByScoreDesc(s) ==
    IF s = <<>> THEN <<>>
    ELSE InsertByScore(s[Len(s)], SortByScoreDesc(SubSeq(s, 1, Len(s) - 1)))

\* The budget of the list search_documents returns on a visual query.
VISUAL_EXTRA == 5

NoSearch ==
    [query |-> <<>>, top_k |-> 0, visual |-> FALSE, status |-> "none",
     text_hits |-> <<>>, image_hits |-> <<>>, result |-> <<>>,
     embeds |-> 0, text_searches |-> 0, image_searches |-> 0,
     text_limit |-> 0, image_limit |-> 0, failed_calls |-> 0]

\* A search that answers a failed call with the text results it has.
SearchFailedKeepsText(b) ==
    [b EXCEPT !.status = "error", !.result = b.text_hits, !.failed_calls = 1]

\* Lines 125-127: a call of an external service raised inside
\* search_documents, which returns the empty list.
SearchFailed(b) ==
    [b EXCEPT !.status = "error", !.result = <<>>, !.failed_calls = 1]

\* A search that answers a hit without a payload field with the text
\* results it has.
PayloadKeyErrorKeepsText(b) ==
    [b EXCEPT !.status = "error", !.result = b.text_hits]

\* Lines 125-127 when search_images_similar raised on a hit whose payload
\* lacks a field it reads: no call of a service failed, and search_documents
\* returns the empty list.
PayloadKeyError(b) == [b EXCEPT !.status = "error", !.result = <<>>]

\* The calls search_documents(q, k) can make and the list it returns.  Every
\* exception is caught and turned into the empty list.
SearchDocuments(q, k) ==
    LET visual == IsVisualQuery(q)
        base == [NoSearch EXCEPT !.query = q, !.top_k = k, !.visual = visual,
                                 !.embeds = 1]
        failed(b) == SearchFailed(b)
        keyError(b) == PayloadKeyError(b)
        texts == SearchTextSimilar(k)
        images == SearchImagesSimilar(IMAGE_LIMIT)
        withText(t) == [base EXCEPT !.text_searches = 1, !.text_limit = k,
                                    !.text_hits = t.hits]
    IN  {failed(base)}
        \cup
        {failed(withText(t)) : t \in {x \in texts : x.status = "error"}}
        \cup
        {[withText(t) EXCEPT !.status = "ok", !.result = t.hits] :
            t \in {x \in texts : ~visual /\ x.status = "ok"}}
        \cup
        {IF m.status = "error"
            THEN failed([withText(t) EXCEPT !.image_searches = 1,
                                         !.image_limit = IMAGE_LIMIT])
            ELSE IF m.status = "KeyError"
            THEN keyError([withText(t) EXCEPT !.image_searches = 1,
                                         !.image_limit = IMAGE_LIMIT])
            ELSE [withText(t) EXCEPT
                    !.image_searches = 1,
                    !.image_limit = IMAGE_LIMIT,
                    !.image_hits = m.hits,
                    !.status = "ok",
                    !.result = Prefix(SortByScoreDesc(
                                   t.hits \o MapSeq(BoostImage, m.hits)),
                                   k + VISUAL_EXTRA)] :
            t \in {x \in texts : visual /\ x.status = "ok"}, m \in images}

(***************************************************************************)
(* RAGService._smart_retrieval and RAGService.generate_answer              *)
(***************************************************************************)
\* The factors of _smart_retrieval: the limit of the broad search, of a
\* keyword search, and the length of its result.
BROAD_FACTOR == 4

KEYWORD_FACTOR == 2

RESULT_FACTOR == 3

\* The attributes QdrantService.__init__ defines.
QdrantServiceAttributes ==
    {"client", "text_collection_name", "image_collection_name"}

\* f"{result['filename']}_{result['chunk_id']}"
ChunkKey(r) == r.filename \o "_" \o ToString(r.chunk_id)

\* A result dict that has the keys the duplicate removal reads.
HasChunkKey(r) == {"filename", "chunk_id"} \subseteq DOMAIN r

SeenBefore(r, kept) == \E j \in 1..Len(kept) : ChunkKey(kept[j]) = ChunkKey(r)

\* Keeping, of the results of one key, the one of the best score.
RECURSIVE DeduplicateKeepBest(_)
DeduplicateKeepBest(s) ==
    IF s = <<>> THEN <<>>
    ELSE LET kept == DeduplicateKeepBest(SubSeq(s, 1, Len(s) - 1))
             r == s[Len(s)]
         IN  IF \E j \in 1..Len(kept) : ChunkKey(kept[j]) = ChunkKey(r)
             THEN [j \in DOMAIN kept |->
                     IF ChunkKey(kept[j]) = ChunkKey(r)
                        /\ r.score > kept[j].score
                     THEN r ELSE kept[j]]
             ELSE Append(kept, r)

\* The loop over all_results: a result is kept when its key was not seen.
RECURSIVE Deduplicate(_)
Deduplicate(s) ==
    IF s = <<>> THEN <<>>
    ELSE LET kept == Deduplicate(SubSeq(s, 1, Len(s) - 1))
             r == s[Len(s)]
         IN  IF SeenBefore(r, kept) THEN kept ELSE Append(kept, r)

\* The part of all_results the loop has gone through when it meets a
\* result without 'filename' (an image result), where it raises KeyError.
RECURSIVE BeforeKeyError(_)
BeforeKeyError(s) ==
    IF s = <<>> \/ ~HasChunkKey(Head(s)) THEN <<>>
    ELSE <<Head(s)>> \o BeforeKeyError(Tail(s))

\* A budget of top_k results.
RequestedBudget(k) == k

\* unique_results[:top_k * 3]
ResultBudget(k) == k * RESULT_FACTOR

RetIdle ==
    /\ index_text = {}
    /\ index_images = {}
    /\ question = <<>>
    /\ top_k = 0
    /\ pc = "idle"
    /\ all_results = <<>>
    /\ keywords = <<>>
    /\ kw_i = 0
    /\ numbers_terms = <<>>
    /\ ref_i = 0
    /\ unique_results = <<>>
    /\ relevant_docs = <<>>
    /\ retrieval_error = "none"
    /\ response = [kind |-> "none"]
    /\ last_search = NoSearch
    /\ n_embed = 0
    /\ n_text_search = 0
    /\ n_image_search = 0
    /\ fan_hits = 0
    /\ n_failures = 0

Hello == <<"h", "e", "l", "l", "o">>

\* Questions without a number: Strategy 3 finds no term to search for.
Questions ==
    {Hello,
     <<"t", "h", "e">>,
     <<"d", "i", "a", "g", "r", "a", "m">>}

\* Questions with a number.
ReferenceQuestions ==
    {<<"p", "a", "g", "e", " ", "5">>}

\* The state when generate_answer(question, top_k) is called, over some
\* index.
RetStart ==
    /\ SegIdle
    /\ ClsIdle
    /\ IngIdle
    /\ ChatIdle
    /\ index_text \in {TextPoints(n) : n \in 0..MaxIndexSize}
    /\ index_images \in ImageCollections(MaxImages)
    /\ top_k \in 1..MaxTopK
    /\ pc = "broad"
    /\ all_results = <<>>
    /\ keywords = <<>>
    /\ kw_i = 0
    /\ numbers_terms = <<>>
    /\ ref_i = 0
    /\ unique_results = <<>>
    /\ relevant_docs = <<>>
    /\ retrieval_error = "none"
    /\ response = [kind |-> "none"]
    /\ last_search = NoSearch
    /\ n_embed = 0
    /\ n_text_search = 0
    /\ n_image_search = 0
    /\ fan_hits = 0
    /\ n_failures = 0

InitRetrieve == question \in Questions /\ RetStart

InitRetrieveReferences == question \in ReferenceQuestions /\ RetStart

\* An exception anywhere in _smart_retrieval: it returns the empty list.
RetrievalRaises(why) ==
    /\ retrieval_error' = why
    /\ relevant_docs' = <<>>
    /\ pc' = "answer"

\* Strategy 1: the broad search, search_similar(embed(question), top_k * 4).
BroadSearch ==
    /\ pc = "broad"
    /\ n_embed' = n_embed + 1
    /\ \E e \in EmbedSingleText :
        IF e = "error"
        THEN /\ RetrievalRaises("embedding")
             /\ n_failures' = n_failures + 1
             /\ UNCHANGED <<all_results, n_text_search>>
        ELSE /\ n_text_search' = n_text_search + 1
             /\ \E t \in SearchTextSimilar(top_k * BROAD_FACTOR) :
                  IF t.status = "error"
                  THEN /\ RetrievalRaises("index")
                       /\ n_failures' = n_failures + 1
                       /\ UNCHANGED all_results
                  ELSE /\ all_results' = all_results \o t.hits
                       /\ pc' = "keywords"
                       /\ UNCHANGED <<retrieval_error, relevant_docs,
                                      n_failures>>
    /\ UNCHANGED <<question, top_k, keywords, kw_i, numbers_terms, ref_i,
                   unique_results, response, last_search, n_image_search,
                   fan_hits>>
    /\ UNCHANGED notRet

\* Strategy 2 begins: keywords = self._extract_keywords(question).
KeywordsExtract ==
    /\ pc = "keywords"
    /\ keywords' = ExtractKeywords(question)
    /\ kw_i' = 1
    /\ pc' = "keyword_loop"
    /\ UNCHANGED <<question, top_k, all_results, numbers_terms, ref_i,
                   unique_results, relevant_docs, retrieval_error, response,
                   last_search, n_embed, n_text_search, n_image_search,
                   fan_hits, n_failures>>
    /\ UNCHANGED notRet

\* One call of search_documents from a fan-out loop, its results appended.
FanOutSearch(q, k) ==
    \E s \in SearchDocuments(q, k) :
        /\ s.result # <<>> => fan_hits < MaxFanOutHits
        /\ n_failures + s.failed_calls <= MaxFailures
        /\ n_failures' = n_failures + s.failed_calls
        /\ fan_hits' = IF s.result # <<>> THEN fan_hits + 1 ELSE fan_hits
        /\ last_search' = s
        /\ all_results' = all_results \o s.result
        /\ n_embed' = n_embed + s.embeds
        /\ n_text_search' = n_text_search + s.text_searches
        /\ n_image_search' = n_image_search + s.image_searches

\* The body of the loop over keywords.
KeywordSearch ==
    /\ pc = "keyword_loop"
    /\ kw_i <= Len(keywords)
    /\ FanOutSearch(keywords[kw_i], top_k * KEYWORD_FACTOR)
    /\ kw_i' = kw_i + 1
    /\ UNCHANGED <<question, top_k, pc, keywords, numbers_terms, ref_i,
                   unique_results, relevant_docs, retrieval_error, response>>
    /\ UNCHANGED notRet

\* Strategy 3 begins: numbers_terms = self._extract_any_references(question).
ReferencesExtract ==
    /\ pc = "keyword_loop"
    /\ kw_i > Len(keywords)
    /\ numbers_terms' \in ListsOfSet(ExtractAnyReferences(question))
    /\ ref_i' = 1
    /\ pc' = "reference_loop"
    /\ UNCHANGED <<question, top_k, all_results, keywords, kw_i,
                   unique_results, relevant_docs, retrieval_error, response,
                   last_search, n_embed, n_text_search, n_image_search,
                   fan_hits, n_failures>>
    /\ UNCHANGED notRet

\* The body of the loop over numbers_terms.
ReferenceSearch ==
    /\ pc = "reference_loop"
    /\ ref_i <= Len(numbers_terms)
    /\ FanOutSearch(numbers_terms[ref_i], top_k)
    /\ ref_i' = ref_i + 1
    /\ UNCHANGED <<question, top_k, pc, keywords, kw_i, numbers_terms,
                   unique_results, relevant_docs, retrieval_error, response>>
    /\ UNCHANGED notRet

\* An emergency stage that does not look at the candidates found so far.
EmergencyAlways(found) == TRUE

\* Line 99, the test of Strategy 4: no stage has found a candidate.
EmergencyNeeded(found) == found = <<>>

\* Strategy 4: the emergency search.  Its arguments are evaluated in order:
\* collection_name reads self.pipeline.qdrant_service.collection_name, an
\* attribute QdrantService does not have, so the call raises AttributeError
\* before the question is embedded or the index searched.
EmergencySearch ==
    /\ pc = "reference_loop"
    /\ ref_i > Len(numbers_terms)
    /\ EmergencyNeeded(all_results)
    /\ IF "collection_name" \in QdrantServiceAttributes
       THEN /\ n_embed' = n_embed + 1
            /\ n_text_search' = n_text_search + 1
            /\ RetrievalRaises("TypeError")
       ELSE /\ RetrievalRaises("AttributeError")
            /\ UNCHANGED <<n_embed, n_text_search>>
    /\ UNCHANGED <<question, top_k, all_results, keywords, kw_i,
                   numbers_terms, ref_i, unique_results, response,
                   last_search, n_image_search, fan_hits, n_failures>>
    /\ UNCHANGED notRet

\* The duplicate removal, the sort and the truncation.  A result without
\* 'filename' raises KeyError in the loop.
Fuse ==
    /\ pc = "reference_loop"
    /\ ref_i > Len(numbers_terms)
    /\ all_results # <<>>
    /\ IF \E i \in 1..Len(all_results) : ~HasChunkKey(all_results[i])
       THEN /\ unique_results' = Deduplicate(BeforeKeyError(all_results))
            /\ RetrievalRaises("KeyError")
       ELSE /\ unique_results' = Deduplicate(all_results)
            /\ relevant_docs' = Prefix(SortByScoreDesc(unique_results'),
                                       ResultBudget(top_k))
            /\ pc' = "answer"
            /\ UNCHANGED retrieval_error
    /\ UNCHANGED <<question, top_k, all_results, keywords, kw_i,
                   numbers_terms, ref_i, response, last_search, n_embed,
                   n_text_search, n_image_search, fan_hits, n_failures>>
    /\ UNCHANGED notRet

\* generate_answer when _smart_retrieval returned nothing.
AnswerNoDocs ==
    /\ pc = "answer"
    /\ relevant_docs = <<>>
    /\ response' = [kind |-> "no_information", sources |-> <<>>,
                    confidence_sum |-> 0, context_chunks_used |-> 0]
    /\ pc' = "done"
    /\ UNCHANGED <<question, top_k, all_results, keywords, kw_i,
                   numbers_terms, ref_i, unique_results, relevant_docs,
                   retrieval_error, last_search, n_embed, n_text_search,
                   n_image_search, fan_hits, n_failures>>
    /\ UNCHANGED notRet

Source(doc) ==
    [filename |-> doc.filename, chunk_id |-> doc.chunk_id, score |-> doc.score]

RECURSIVE SumScores(_)
SumScores(s) == IF s = <<>> THEN 0 ELSE Head(s).score + SumScores(Tail(s))

\* A context that takes every retrieved document.
MaxChunksUncapped(n) == n

\* Line 39: max_chunks = min(Config.MAX_CONTEXT_CHUNKS, len(relevant_docs)).
MaxChunks(n) == Min({MAX_CONTEXT_CHUNKS, n})

\* generate_answer over the first max_chunks retrieved documents.
\* _generate_with_gemini returns a text also when the model fails.
AnswerFromDocs ==
    /\ pc = "answer"
    /\ relevant_docs # <<>>
    /\ LET max_chunks == MaxChunks(Len(relevant_docs))
           used == Prefix(relevant_docs, max_chunks)
       IN  \E answer \in {"generated", "generation_error"} :
             response' = [kind |-> "answer", answer |-> answer,
                          sources |-> MapSeq(Source, used),
                          confidence_sum |-> SumScores(used),
                          context_chunks_used |-> max_chunks,
                          retrieved_docs_count |-> Len(relevant_docs)]
    /\ pc' = "done"
    /\ UNCHANGED <<question, top_k, all_results, keywords, kw_i,
                   numbers_terms, ref_i, unique_results, relevant_docs,
                   retrieval_error, last_search, n_embed, n_text_search,
                   n_image_search, fan_hits, n_failures>>
    /\ UNCHANGED notRet

\* A request whose question has no number: the loop of Strategy 3 has no
\* iteration.
RetNext ==
    \/ BroadSearch
    \/ KeywordsExtract
    \/ KeywordSearch
    \/ ReferencesExtract
    \/ EmergencySearch
    \/ Fuse
    \/ AnswerNoDocs
    \/ AnswerFromDocs

SpecRetrieve == InitRetrieve /\ [][RetNext]_vars

\* A request whose question has a number.
RetNextReferences == RetNext \/ ReferenceSearch

SpecRetrieveReferences ==
    InitRetrieveReferences /\ [][RetNextReferences]_vars

(***************************************************************************)
(* generate_answer over retrieved lists longer than the context.           *)
(***************************************************************************)
MaxRetrieved == 14

\* The state when _smart_retrieval has returned: a question without a
\* keyword or a number, whose broad search found the n chunks of the index,
\* ranked by score; top_k is the smallest one whose budget holds n results.
InitAnswer ==
    /\ SegIdle
    /\ ClsIdle
    /\ IngIdle
    /\ ChatIdle
    /\ index_images = {}
    /\ question = <<"t", "h", "e">>
    /\ pc = "answer"
    /\ keywords = <<>>
    /\ kw_i = 1
    /\ numbers_terms = <<>>
    /\ ref_i = 1
    /\ retrieval_error = "none"
    /\ response = [kind |-> "none"]
    /\ last_search = NoSearch
    /\ n_embed = 1
    /\ n_text_search = 1
    /\ n_image_search = 0
    /\ fan_hits = 0
    /\ n_failures = 0
    /\ \E n \in 0..MaxRetrieved :
         /\ index_text = TextPoints(n)
         /\ top_k = Max({1, (n + RESULT_FACTOR - 1) \div RESULT_FACTOR})
         /\ \E scores \in [1..n -> {x \in RawScores : x >= SCORE_THRESHOLD}] :
              /\ all_results =
                    [i \in 1..n |-> TextHit([point |-> TextPointAt(i),
                                             score |-> scores[i]])]
              /\ IsSortedDesc(all_results)
         /\ unique_results = all_results
         /\ relevant_docs = all_results

AnswerNext == AnswerNoDocs \/ AnswerFromDocs

SpecAnswer == InitAnswer /\ [][AnswerNext]_vars

(***************************************************************************)
(* Fusion over every candidate list.                                       *)
(***************************************************************************)
\* Scores of the candidates of a stage.
CandidateScores == {50, 100}

\* One key more than the result budget of top_k = 1.
CandidateKeys == 1..(ResultBudget(1) + 1)

Candidates ==
    {TextHit([point |-> TextPointAt(i), score |-> s]) :
        i \in CandidateKeys, s \in CandidateScores}
    \cup {ImageHit([point |-> [image_id |-> "img1"], score |-> MAX_SCORE])}

\* The state when the stages are over and have left any candidate list.
InitFuse ==
    /\ SegIdle
    /\ ClsIdle
    /\ IngIdle
    /\ ChatIdle
    /\ index_text = TextPoints(MaxIndexSize)
    /\ index_images = {[image_id |-> "img1", complete |-> TRUE]}
    /\ question \in {RefundPolicy, ShowMeTheDiagram}
    /\ top_k \in 1..MaxTopK
    /\ pc = "reference_loop"
    /\ keywords = ExtractKeywords(question)
    /\ kw_i = Len(keywords) + 1
    /\ numbers_terms = <<>>
    /\ ref_i = 1
    /\ unique_results = <<>>
    /\ relevant_docs = <<>>
    /\ retrieval_error = "none"
    /\ response = [kind |-> "none"]
    /\ last_search = NoSearch
    /\ n_embed = 0
    /\ n_text_search = 0
    /\ n_image_search = 0
    /\ fan_hits = 0
    /\ n_failures = 0
    /\ all_results \in StringsUpTo(Candidates, MaxCandidates)

FuseNext == EmergencySearch \/ Fuse \/ AnswerNoDocs \/ AnswerFromDocs

SpecFuse == InitFuse /\ [][FuseNext]_vars

(***************************************************************************)
(* IngestionPipeline.process_pdf_file, called for every uploaded document  *)
(* by the loop of app.main.                                                *)
(***************************************************************************)
MaxBatch == 2

\* An uploaded document: whether PyMuPDF can read it, its pages, the words
\* of the text of its pages, and its images.
Documents ==
    {d \in [readable : BOOLEAN, pages : {0, 1}, words : {0, 3}, images : {0, 1}] :
        /\ d.pages = 0 => (d.words = 0 /\ d.images = 0)
        /\ ~d.readable => d.pages = 0}

\* The words of "--- Page N ---", put before the text of each page.
MARKER_WORDS == 4

\* The words of the text extract_text_and_images_from_pdf returns.
ExtractedWordCount(d) == d.pages * MARKER_WORDS + d.words

\* A pipeline without the test for an empty text.
TextNeverBlank(d) == FALSE

\* The test of process_pdf: not text.strip()
NoTextExtracted(d) == ExtractedWordCount(d) = 0

\* The numbers of chunks chunk_text can return for a text.
ChunkCounts == {1, 2}

\* batch_size of add_documents and add_images.
UPSERT_BATCH_SIZE == 100

\* The name of the temporary file of the i-th upload.
TempName(i) == "tmp" \o ToString(i) \o ".pdf"

InitIngest ==
    /\ SegIdle
    /\ ClsIdle
    /\ RetIdle
    /\ ChatIdle
    /\ doc_i = 1
    /\ ing_pc = "process_pdf"
    /\ text_chunks = <<>>
    /\ images_info = <<>>
    /\ results = <<>>
    /\ batch \in StringsUpTo(Documents, MaxBatch) \ {<<>>}

\* process_pdf_file returns; the loop of main goes to the next document.
IngReturn(result) ==
    /\ results' = Append(results, result)
    /\ doc_i' = doc_i + 1
    /\ ing_pc' = IF doc_i < Len(batch) THEN "process_pdf" ELSE "done"
    /\ text_chunks' = <<>>
    /\ images_info' = <<>>

\* The dict of lines 67-71.
Failure(why) ==
    [success |-> FALSE, filename |-> TempName(doc_i), error |-> why]

\* The points whose upsert succeeded when the batch fail_at failed (all of
\* them when fail_at = 0).
Upserted(points, fail_at) ==
    IF fail_at = 0 THEN {points[i] : i \in DOMAIN points}
    ELSE {points[i] : i \in 1..Min({Len(points), (fail_at - 1) * UPSERT_BATCH_SIZE})}

UpsertBatches(points) ==
    (Len(points) + UPSERT_BATCH_SIZE - 1) \div UPSERT_BATCH_SIZE

\* Step 1: text_chunks, images_info = self.pdf_processor.process_pdf(path)
IngProcessPdf ==
    /\ ing_pc = "process_pdf"
    /\ LET d == batch[doc_i]
       IN  IF ~d.readable
           THEN IngReturn(Failure("extraction"))
           ELSE IF NoTextExtracted(d)
           THEN IngReturn(Failure("no_text"))
           ELSE /\ \E n \in ChunkCounts :
                     text_chunks' = [i \in 1..n |->
                         [filename |-> TempName(doc_i), chunk_id |-> i - 1]]
                /\ images_info' = [i \in 1..d.images |->
                         [image_id |-> TempName(doc_i) \o "#" \o ToString(i),
                          complete |-> FALSE]]
                /\ ing_pc' = "embed_texts"
                /\ UNCHANGED <<doc_i, results>>
    /\ UNCHANGED <<batch, idxVars>>
    /\ UNCHANGED notIng

\* Step 2: the embeddings of the chunks; embed_texts raises on an error.
IngEmbedTexts ==
    /\ ing_pc = "embed_texts"
    /\ \E ok \in BOOLEAN :
         IF ok THEN /\ ing_pc' = "embed_captions"
                    /\ UNCHANGED <<doc_i, results, text_chunks, images_info>>
         ELSE IngReturn(Failure("embed_texts"))
    /\ UNCHANGED <<batch, idxVars>>
    /\ UNCHANGED notIng

\* Step 3: the embeddings of the captions, when there is an image.
IngEmbedCaptions ==
    /\ ing_pc = "embed_captions"
    /\ \E ok \in BOOLEAN :
         IF ok \/ images_info = <<>>
         THEN /\ ing_pc' = "create_collections"
              /\ UNCHANGED <<doc_i, results, text_chunks, images_info>>
         ELSE IngReturn(Failure("embed_captions"))
    /\ UNCHANGED <<batch, idxVars>>
    /\ UNCHANGED notIng

\* Step 4: create_collections_if_not_exist
IngCreateCollections ==
    /\ ing_pc = "create_collections"
    /\ \E ok \in BOOLEAN :
         IF ok THEN /\ ing_pc' = "add_documents"
                    /\ UNCHANGED <<doc_i, results, text_chunks, images_info>>
         ELSE IngReturn(Failure("create_collections"))
    /\ UNCHANGED <<batch, idxVars>>
    /\ UNCHANGED notIng

\* Step 5: add_documents upserts the chunks in batches.
IngAddDocuments ==
    /\ ing_pc = "add_documents"
    /\ \E fail_at \in 0..UpsertBatches(text_chunks) :
         /\ index_text' = index_text \cup Upserted(text_chunks, fail_at)
         /\ IF fail_at = 0
            THEN /\ ing_pc' = "add_images"
                 /\ UNCHANGED <<doc_i, results, text_chunks, images_info>>
            ELSE IngReturn(Failure("add_documents"))
    /\ UNCHANGED <<batch, index_images>>
    /\ UNCHANGED notIng

\* Step 6 and lines 53-62: add_images upserts the images, when there is
\* one, and process_pdf_file returns its success.
IngAddImages ==
    /\ ing_pc = "add_images"
    /\ \E fail_at \in 0..UpsertBatches(images_info) :
         /\ index_images' = index_images \cup Upserted(images_info, fail_at)
         /\ IF fail_at = 0
            THEN IngReturn([success |-> TRUE, filename |-> TempName(doc_i),
                            chunks_count |-> Len(text_chunks),
                            images_count |-> Len(images_info)])
            ELSE IngReturn(Failure("add_images"))
    /\ UNCHANGED <<batch, index_text>>
    /\ UNCHANGED notIng

IngNext ==
    \/ IngProcessPdf
    \/ IngEmbedTexts
    \/ IngEmbedCaptions
    \/ IngCreateCollections
    \/ IngAddDocuments
    \/ IngAddImages

SpecIngest == InitIngest /\ [][IngNext]_vars

(***************************************************************************)
(* The specifications: one per component, the others idle.                 *)
(***************************************************************************)
InitSegment == SegInit /\ RetIdle

SpecSegment == InitSegment /\ [][SegNext]_vars

\* chunk_text on texts that hold code, list and table marks.
MaxMarkFragments == 3

InitSegmentMarks ==
    /\ chunk_size \in 0..MaxChunkSize
    /\ sections = <<>>
    /\ sec_i = 0
    /\ current_chunk = <<>>
    /\ current_size = 0
    /\ chunks = <<>>
    /\ seg_pc = "split"
    /\ ClsIdle
    /\ IngIdle
    /\ ChatIdle
    /\ RetIdle
    /\ text \in {Concat(fs) : fs \in StringsUpTo(
                    {<<"a">>, <<"|">>, <<"-">>, <<"d", "e", "f">>,
                     <<"backquote", "backquote", "backquote">>, <<"1", ".">>, <<"\n">>, BlankLine},
                    MaxMarkFragments)}

SpecSegmentMarks == InitSegmentMarks /\ [][SegNext]_vars

ClsNext == ClsClassify

InitClassify == ClsInit /\ SegIdle /\ IngIdle /\ RetIdle /\ ChatIdle

SpecClassify == InitClassify /\ [][ClsNext]_vars

(***************************************************************************)
(* RAGService._extract_keywords and _extract_any_references, called on a   *)
(* question alone.                                                         *)
(***************************************************************************)
MaxTokens == 2

\* The questions of up to MaxTokens words, and "what is in chapter 3?".
ExtractQuestions ==
    LET tokens == {<<"w", "h", "a", "t">>,
                   <<"w", "h", "a", "t", "?">>,
                   <<"i", "s", "?">>,
                   <<"T", "h", "e">>,
                   <<"a", "b">>,
                   <<".", ".", ".">>,
                   <<"r", "e", "f", "u", "n", "d", ",">>,
                   <<"C", "h", "a", "p", "t", "e", "r">>,
                   <<"e", "x", "e", "r", "c", "i", "s", "e">>,
                   <<"p", "3">>,
                   <<"3">>,
                   <<"1", "2">>}
    IN  {Join(ws, <<" ">>) : ws \in StringsUpTo(tokens, MaxTokens)}
            \cup {<<"w", "h", "a", "t", " ", "i", "s", " ", "i", "n", " ",
                     "c", "h", "a", "p", "t", "e", "r", " ", "3", "?">>}

InitExtract ==
    /\ SegIdle
    /\ ClsIdle
    /\ IngIdle
    /\ ChatIdle
    /\ index_text = {}
    /\ index_images = {}
    /\ top_k = 0
    /\ pc = "extract_keywords"
    /\ all_results = <<>>
    /\ keywords = <<>>
    /\ kw_i = 0
    /\ numbers_terms = <<>>
    /\ ref_i = 0
    /\ unique_results = <<>>
    /\ relevant_docs = <<>>
    /\ retrieval_error = "none"
    /\ response = [kind |-> "none"]
    /\ last_search = NoSearch
    /\ n_embed = 0
    /\ n_text_search = 0
    /\ n_image_search = 0
    /\ fan_hits = 0
    /\ n_failures = 0
    /\ question \in ExtractQuestions

\* keywords = self._extract_keywords(question)
ExtKeywords ==
    /\ pc = "extract_keywords"
    /\ keywords' = ExtractKeywords(question)
    /\ pc' = "extract_references"
    /\ UNCHANGED <<question, top_k, all_results, kw_i, numbers_terms, ref_i,
                   unique_results, relevant_docs, retrieval_error, response,
                   last_search, n_embed, n_text_search, n_image_search,
                   fan_hits, n_failures>>
    /\ UNCHANGED notRet

\* numbers_terms = self._extract_any_references(question)
ExtReferences ==
    /\ pc = "extract_references"
    /\ numbers_terms' \in ListsOfSet(ExtractAnyReferences(question))
    /\ pc' = "extracted"
    /\ UNCHANGED <<question, top_k, all_results, keywords, kw_i, ref_i,
                   unique_results, relevant_docs, retrieval_error, response,
                   last_search, n_embed, n_text_search, n_image_search,
                   fan_hits, n_failures>>
    /\ UNCHANGED notRet

ExtNext == ExtKeywords \/ ExtReferences

SpecExtract == InitExtract /\ [][ExtNext]_vars

(***************************************************************************)
(* IngestionPipeline.search_documents, called on a query alone.            *)
(***************************************************************************)
\* The state when search_documents(question, top_k) is called over some
\* index, with the limits _smart_retrieval passes.
InitSearch ==
    /\ SegIdle
    /\ ClsIdle
    /\ IngIdle
    /\ ChatIdle
    /\ index_text \in {TextPoints(n) : n \in 0..MaxIndexSize}
    /\ index_images \in ImageCollections(MaxImages)
    /\ question \in Questions
    /\ top_k \in 1..(MaxTopK * KEYWORD_FACTOR)
    /\ pc = "search"
    /\ all_results = <<>>
    /\ keywords = <<>>
    /\ kw_i = 0
    /\ numbers_terms = <<>>
    /\ ref_i = 0
    /\ unique_results = <<>>
    /\ relevant_docs = <<>>
    /\ retrieval_error = "none"
    /\ response = [kind |-> "none"]
    /\ last_search = NoSearch
    /\ n_embed = 0
    /\ n_text_search = 0
    /\ n_image_search = 0
    /\ fan_hits = 0
    /\ n_failures = 0

\* Lines 84-127: the call and the list it returns to its caller.
SearchCall ==
    /\ pc = "search"
    /\ \E s \in SearchDocuments(question, top_k) :
         /\ last_search' = s
         /\ all_results' = s.result
         /\ n_embed' = s.embeds
         /\ n_text_search' = s.text_searches
         /\ n_image_search' = s.image_searches
         /\ n_failures' = s.failed_calls
    /\ pc' = "returned"
    /\ UNCHANGED <<question, top_k, keywords, kw_i, numbers_terms, ref_i,
                   unique_results, relevant_docs, retrieval_error, response,
                   fan_hits>>
    /\ UNCHANGED notRet

SearchNext == SearchCall

SpecSearch == InitSearch /\ [][SearchNext]_vars

(***************************************************************************)
(* The chat session of app.main: upload, prompt, reply, clear.             *)
(***************************************************************************)
MaxMessages == 6

MaxUploads == 2

\* The choices of the query type selector.
QueryTypes == {"Auto-detect", "Text only", "Images only", "Multimodal"}

\* The methods class RAGService defines; search_images_specifically, which
\* the "Images only" branch calls, is not one of them.
RAGServiceMethods ==
    {"generate_answer", "_smart_retrieval", "_extract_any_references",
     "_extract_keywords", "_generate_with_gemini",
     "_generate_contextual_answer", "get_document_summary", "cleanup"}

\* A chat input that takes a prompt whether or not a document was uploaded.
NoDocumentsNever(files) == FALSE

\* Line 219: not st.session_state.uploaded_files_info
NoDocuments(files) == files = <<>>

UserMessage(prompt) == [role |-> "user", content |-> prompt]

AssistantMessage(content) == [role |-> "assistant", content |-> content]

InitChat ==
    /\ SegIdle
    /\ ClsIdle
    /\ RetIdle
    /\ batch = <<>>
    /\ doc_i = 0
    /\ ing_pc = "idle"
    /\ text_chunks = <<>>
    /\ images_info = <<>>
    /\ results = <<>>
    /\ ChatIdle

\* Lines 97-131 for one uploaded file: process_uploaded_file returns a dict
\* with success True or False; a success is added to uploaded_files_info
\* unless its filename is there already.  A failure can leave the chunks
\* already written in the index.
ChatProcess ==
    /\ chat_pc = "idle"
    /\ Len(uploaded_files_info) < MaxUploads
    /\ LET name == TempName(Len(uploaded_files_info) + 1)
           chunk == [filename |-> name, chunk_id |-> 0]
           existing_files == {uploaded_files_info[i] :
                                 i \in DOMAIN uploaded_files_info}
       IN  \E success \in BOOLEAN :
             IF success
             THEN /\ uploaded_files_info' =
                        IF name \notin existing_files
                        THEN Append(uploaded_files_info, name)
                        ELSE uploaded_files_info
                  /\ index_text' = index_text \cup {chunk}
             ELSE /\ UNCHANGED uploaded_files_info
                  /\ index_text' \in {index_text, index_text \cup {chunk}}
    /\ UNCHANGED <<messages, chat_pc, index_images>>
    /\ UNCHANGED notChat

\* Lines 218-226: a prompt is entered.  Without an uploaded document the
\* handler warns and returns; otherwise the user message is appended.
ChatSubmit ==
    /\ chat_pc = "idle"
    /\ Len(messages) + 2 <= MaxMessages
    /\ \E prompt \in {Hello, <<"d", "i", "a", "g", "r", "a", "m">>} :
         IF NoDocuments(uploaded_files_info)
         THEN UNCHANGED <<messages, chat_pc>>
         ELSE /\ messages' = Append(messages, UserMessage(prompt))
              /\ chat_pc' = "respond"
    /\ UNCHANGED <<uploaded_files_info, idxVars>>
    /\ UNCHANGED notChat

\* Lines 229-335: the reply.  Every branch of the try block ends with one
\* append of an assistant message, and the handler of lines 327-335 appends
\* one when a statement before that raised.  The "Images only" branch calls
\* a method RAGService does not have, which raises AttributeError.
ChatRespond ==
    /\ chat_pc = "respond"
    /\ \E query_type \in QueryTypes, raised \in BOOLEAN, found \in BOOLEAN :
         LET reply ==
               IF query_type = "Images only"
               THEN IF \/ "search_images_specifically" \notin RAGServiceMethods
                       \/ raised
                    THEN "error"
                    ELSE IF found THEN "images_only" ELSE "no_images"
               ELSE IF raised THEN "error" ELSE "answer"
         IN  messages' = Append(messages, AssistantMessage(reply))
    /\ chat_pc' = "idle"
    /\ UNCHANGED <<uploaded_files_info, idxVars>>
    /\ UNCHANGED notChat

\* Lines 161-175: delete_collection swallows the errors of its two
\* deletions; the session lists are emptied unless removing the image
\* directory raised.
ChatClear ==
    /\ chat_pc = "idle"
    /\ index_text' \in {index_text, {}}
    /\ index_images' \in {index_images, {}}
    /\ \E raised \in BOOLEAN :
         IF raised
         THEN UNCHANGED <<messages, uploaded_files_info>>
         ELSE /\ messages' = <<>>
              /\ uploaded_files_info' = <<>>
    /\ UNCHANGED chat_pc
    /\ UNCHANGED notChat

ChatNext == ChatProcess \/ ChatSubmit \/ ChatRespond \/ ChatClear

SpecChat == InitChat /\ [][ChatNext]_vars

(***************************************************************************)
(* Claims about chunk_text.                                                *)
(***************************************************************************)
\* The sections of the chunks emitted so far, in chunk_id order, as found by
\* splitting each chunk's text on blank lines again.
RECURSIVE ChunkSections(_)
ChunkSections(cs) ==
    IF cs = <<>> THEN <<>>
    ELSE SplitSections(cs[1].text) \o ChunkSections(Tail(cs))

Oversized(c) ==
    LET secs == SplitSections(c.text)
    IN  Len(secs) = 1 /\ WordCount(secs[1]) > chunk_size

\* C1: every emitted chunk has word_count <= chunk_size, unless it is exactly
\* one section whose own word count exceeds chunk_size; a chunk that joins
\* two or more sections never exceeds chunk_size. word_count is the number of
\* words of the chunk's text.
C1_SizeBound ==
    \A k \in 1..Len(chunks) :
        LET c == chunks[k]
        IN  /\ c.word_count = WordCount(c.text)
            /\ c.word_count <= chunk_size \/ Oversized(c)
            /\ Len(SplitSections(c.text)) >= 2 => c.word_count <= chunk_size

\* C1 witness: chunk_text has returned an oversized one-section chunk and a
\* chunk that joins two sections.
C1_Witness ==
    /\ seg_pc = "done"
    /\ \E k \in 1..Len(chunks) :
          Oversized(chunks[k]) /\ chunks[k].word_count > chunk_size
    /\ \E k \in 1..Len(chunks) : Len(SplitSections(chunks[k].text)) >= 2

\* C2: when chunk_text returns, the sections of the returned chunks, taken in
\* chunk_id order, are the sections of the input in input order: none
\* dropped, none duplicated.
C2_Coverage ==
    seg_pc = "done" =>
        /\ ChunkSections(chunks) = SplitSections(text)
        /\ \A k \in 1..Len(chunks) : chunks[k].chunk_id = k - 1

\* C2 witness: a returned segmentation of three sections into two chunks.
C2_Witness ==
    /\ seg_pc = "done"
    /\ Len(SplitSections(text)) = 3
    /\ \A i \in 1..3 : WordCount(SplitSections(text)[i]) >= 1
    /\ Len(chunks) = 2

(***************************************************************************)
(* Claims about fusion: the duplicate removal, the sort, the truncation.   *)
(***************************************************************************)
Returned == pc \in {"answer", "done"}

TextCandidates(s) == {i \in 1..Len(s) : s[i].content_type = "text"}

SameKey(a, b) == a.filename = b.filename /\ a.chunk_id = b.chunk_id

\* The first place of all_results that holds a candidate of the key of r.
FirstOfKey(r) ==
    CHOOSE i \in TextCandidates(all_results) :
        /\ SameKey(all_results[i], r)
        /\ \A j \in TextCandidates(all_results) :
              SameKey(all_results[j], r) => i <= j

\* The list the duplicate removal hands on: nothing when it raised.
FusionOutput == IF retrieval_error = "none" THEN unique_results ELSE <<>>

UniqueKeysOfTextLists ==
    Returned =>
        /\ \A j \in 1..Len(unique_results), k \in 1..Len(unique_results) :
              SameKey(unique_results[j], unique_results[k]) => j = k
        /\ retrieval_error = "none" =>
              \A i \in TextCandidates(all_results) :
                 \E j \in 1..Len(unique_results) :
                    SameKey(unique_results[j], all_results[i])

\* C4: a result kept by fusion is the first candidate of its key in stage
\* order, with the score it had there, also when a later candidate of the
\* key has a higher score.
C4_FirstSeenKept ==
    Returned =>
        /\ \A j \in 1..Len(unique_results) :
              unique_results[j] = all_results[FirstOfKey(unique_results[j])]
        /\ \A j \in 1..Len(relevant_docs) :
              relevant_docs[j] = all_results[FirstOfKey(relevant_docs[j])]

\* The broad search found a chunk with score 0.5, a keyword search found it
\* again with score 1.0, and the result returned has score 0.5.
C4_Witness ==
    /\ pc = "done"
    /\ Len(all_results) >= 2
    /\ last_search.status = "ok"
    /\ last_search.result # <<>>
    /\ last_search.query \in {keywords[i] : i \in 1..Len(keywords)}
    /\ SameKey(all_results[1], all_results[Len(all_results)])
    /\ all_results[1].score = 50
    /\ all_results[Len(all_results)].score = 100
    /\ \E j \in 1..Len(relevant_docs) :
          /\ SameKey(relevant_docs[j], all_results[1])
          /\ relevant_docs[j].score = 50
    /\ response.kind = "answer"

\* C5: the list _smart_retrieval returns and the list search_documents
\* returns on a visual query are sorted by score, highest first.
C5_SortedDesc ==
    /\ IsSortedDesc(relevant_docs)
    /\ (last_search.visual /\ last_search.status = "ok") =>
          IsSortedDesc(last_search.result)

\* The candidates came in rising order of score and were returned in
\* falling order.
C5_Witness ==
    /\ pc = "done"
    /\ Len(unique_results) = 2
    /\ unique_results[1].score < unique_results[2].score
    /\ relevant_docs = <<unique_results[2], unique_results[1]>>

\* C6: on a visual query every image result has the score
\* min(raw score * 1.2, 1.0), at most 1.0, and every text result the score
\* the text search gave it; on a non-visual query the results are the ones
\* of the text search, unchanged.
C6_ImageBoost ==
    last_search.status = "ok" =>
        LET s == last_search
        IN  /\ s.visual =>
                /\ Len(s.result) = Len(s.text_hits) + Len(s.image_hits)
                /\ \A i \in 1..Len(s.result) :
                     IF s.result[i].content_type = "image"
                     THEN /\ s.result[i].score <= 100
                          /\ \E j \in 1..Len(s.image_hits) :
                               /\ s.image_hits[j].image_id = s.result[i].image_id
                               /\ s.result[i].score =
                                    Min({(s.image_hits[j].score * 12) \div 10,
                                         100})
                     ELSE \E j \in 1..Len(s.text_hits) :
                               s.text_hits[j] = s.result[i]
            /\ ~s.visual => /\ s.result = s.text_hits
                            /\ s.image_hits = <<>>

\* A visual search found an image of raw score 1.0, returned with 1.0, and a
\* text chunk of score 0.5, returned with 0.5.
C6_Witness ==
    /\ last_search.visual
    /\ last_search.status = "ok"
    /\ \E j \in 1..Len(last_search.image_hits) :
          last_search.image_hits[j].score = 100
    /\ \E i \in 1..Len(last_search.result) :
          /\ last_search.result[i].content_type = "image"
          /\ last_search.result[i].score = 100
    /\ \E i \in 1..Len(last_search.result) :
          /\ last_search.result[i].content_type = "text"
          /\ last_search.result[i].score = 50

\* C7, corrected: the list _smart_retrieval returns holds the first
\* 3 * top_k results of the sorted list, for a visual question and for a
\* non-visual one alike.
C7_ResultBudget ==
    Returned =>
        /\ Len(relevant_docs) <= 3 * top_k
        /\ retrieval_error = "none" =>
              Len(relevant_docs) = Min({Len(unique_results), 3 * top_k})

\* A non-visual question, four distinct chunks found, three returned for
\* top_k = 1.
C7_Witness ==
    /\ pc = "done"
    /\ ~IsVisualQuery(question)
    /\ top_k = 1
    /\ Len(unique_results) = 4
    /\ Len(relevant_docs) = 3

\* C7, as stated: a non-visual question gets at most top_k results.
C7_AsStated ==
    (Returned /\ ~IsVisualQuery(question)) => Len(relevant_docs) <= top_k

\* The budgets of search_documents: top_k on a non-visual query, top_k + 5
\* on a visual one.
SearchDocumentsBudget ==
    Len(last_search.result) <=
        IF last_search.visual THEN last_search.top_k + 5 ELSE last_search.top_k

(***************************************************************************)
(* Claims about the stages of retrieval.                                   *)
(***************************************************************************)
\* C8: when the index holds a point and the broad, keyword and reference
\* searches found no candidate, retrieval returns at least one candidate.
C8_EmergencyGuarantee ==
    (/\ Returned
     /\ index_text # {}
     /\ retrieval_error \notin {"embedding", "index"}
     /\ n_failures = 0
     /\ all_results = <<>>)
        => relevant_docs # <<>>

\* C9: answering the greeting "hello" calls neither the embedding provider
\* nor the index.
C9_GreetingBypass ==
    Lower(question) = Hello =>
        /\ n_embed = 0
        /\ n_text_search = 0
        /\ n_image_search = 0

(***************************************************************************)
(* Claims about _is_visual_query.                                          *)
(***************************************************************************)
\* The word w stands in q at position i, whatever the case of q's letters.
OccursAt(q, w, i) ==
    /\ i + Len(w) - 1 <= Len(q)
    /\ \A j \in 1..Len(w) : LowerChar(q[i + j - 1]) = w[j]

VisualVocabulary == {visual_keywords[i] : i \in 1..Len(visual_keywords)}

\* C10: _is_visual_query(q) is true exactly when the lower-cased q contains a
\* word of the visual vocabulary as a substring; "show me the diagram on
\* page 5" is visual and "what is the refund policy" is not.
C10_VisualIff ==
    cls_pc = "done" =>
        /\ is_visual <=> \E w \in VisualVocabulary :
                             \E i \in 1..Len(query) : OccursAt(query, w, i)
        /\ query = ShowMeTheDiagram => is_visual
        /\ query = RefundPolicy => ~is_visual

\* C10 witness: a query that holds a vocabulary word only in upper case has
\* been classified visual.
C10_Witness ==
    /\ cls_pc = "done"
    /\ is_visual
    /\ ~\E i \in 1..Len(visual_keywords) : Contains(query, visual_keywords[i])


(***************************************************************************)
(* Claims about the keyword and reference extraction.                      *)
(***************************************************************************)
\* The integers that occur in q: its maximal runs of digits.
DigitRuns(q) ==
    {SubSeq(q, i, j) : <<i, j>> \in
        {p \in (1..Len(q)) \X (1..Len(q)) :
            /\ p[1] <= p[2]
            /\ \A m \in p[1]..p[2] : q[m] \in Digits
            /\ (p[1] = 1 \/ q[p[1] - 1] \notin Digits)
            /\ (p[2] = Len(q) \/ q[p[2] + 1] \notin Digits)}}

\* The eight structural-unit words of the reference vocabulary.
StructuralUnits ==
    {<<"c", "h", "a", "p", "t", "e", "r">>,
     <<"s", "e", "c", "t", "i", "o", "n">>,
     <<"p", "a", "r", "t">>,
     <<"p", "a", "g", "e">>,
     <<"l", "e", "s", "s", "o", "n">>,
     <<"u", "n", "i", "t">>,
     <<"m", "o", "d", "u", "l", "e">>,
     <<"e", "x", "e", "r", "c", "i", "s", "e">>}

Elements(s) == {s[i] : i \in DOMAIN s}

NoDuplicates(s) == \A i, j \in DOMAIN s : s[i] = s[j] => i = j

\* C11: for every integer N of the question, the references returned
\* contain "<word> N" for each of the eight words chapter, section, part,
\* page, lesson, unit, module and exercise, and the bare "N"; the list has
\* no duplicate.
C11_AllEightWords ==
    pc = "extracted" =>
        /\ NoDuplicates(numbers_terms)
        /\ \A n \in DigitRuns(question) :
              /\ n \in Elements(numbers_terms)
              /\ \A w \in StructuralUnits :
                    (w \o <<" ">> \o n) \in Elements(numbers_terms)

\* The part of C11 the code keeps: every word but "exercise", the bare
\* number, and no duplicate.
SevenWordsAndNumber ==
    pc = "extracted" =>
        /\ NoDuplicates(numbers_terms)
        /\ \A n \in DigitRuns(question) :
              /\ n \in Elements(numbers_terms)
              /\ \A w \in StructuralUnits \ {<<"e", "x", "e", "r", "c", "i", "s", "e">>} :
                    (w \o <<" ">> \o n) \in Elements(numbers_terms)

\* The tokens of the question, lower-cased and stripped of punctuation.
StrippedTokens(q) ==
    LET words == SplitWords(Lower(q))
    IN  [i \in 1..Len(words) |-> Strip(words[i])]

\* s is t with some elements left out.
RECURSIVE IsSubsequence(_, _)
IsSubsequence(s, t) ==
    IF s = <<>> THEN TRUE
    ELSE IF t = <<>> THEN FALSE
    ELSE IF s[1] = t[1] THEN IsSubsequence(Tail(s), Tail(t))
    ELSE IsSubsequence(s, Tail(t))

\* C12: no keyword is a stop word or shorter than 3 characters, both tested
\* on the lower-cased token stripped of its punctuation; the keywords keep
\* the word order of the question.
C12_FilteredAfterStripping ==
    pc \in {"extract_references", "extracted"} =>
        /\ \A i \in DOMAIN keywords :
              /\ keywords[i] \notin stop_words
              /\ Len(keywords[i]) >= 3
        /\ IsSubsequence(keywords, StrippedTokens(question))

\* The part of C12 the code keeps: the keywords are stripped tokens of the
\* question, in its word order.
KeywordsInWordOrder ==
    pc \in {"extract_references", "extracted"} =>
        IsSubsequence(keywords, StrippedTokens(question))

(***************************************************************************)
(* Claims about failures while answering.                                  *)
(***************************************************************************)
\* generate_answer has returned after a failure of the retrieval or of the
\* answer generation.
FailedRequest ==
    /\ pc = "done"
    /\ \/ retrieval_error # "none"
       \/ (response.kind = "answer" /\ response.answer = "generation_error")

\* C13: every failure path of generate_answer (retrieval, embedding or
\* generation failure) returns an answer with an explanatory message, empty
\* sources and confidence 0.0.
C13_FailureReply ==
    FailedRequest =>
        /\ response.sources = <<>>
        /\ response.confidence_sum = 0

\* The part of C13 the code keeps: a failure of the retrieval is answered
\* with empty sources and confidence 0.0.
RetrievalFailureReply ==
    (pc = "done" /\ retrieval_error # "none") =>
        /\ response.kind = "no_information"
        /\ response.sources = <<>>
        /\ response.confidence_sum = 0

\* The last search_documents call had a search of the text or of the image
\* collection fail.
FanOutIndexFailure ==
    /\ last_search.status = "error"
    /\ last_search.failed_calls = 1
    /\ last_search.text_searches = 1

\* C14, corrected: no failed index call is retried.  When the broad search
\* of Stage 1 fails, retrieval yields the empty list and generate_answer
\* returns the "couldn't find any relevant information" answer with empty
\* sources and confidence 0.0.  When a search of a keyword or reference
\* fan-out fails, only that search yields the empty list, and the request
\* is answered all the same.
C14_IndexFailureRecovered ==
    /\ retrieval_error = "index" =>
          /\ relevant_docs = <<>>
          /\ n_text_search = 1
          /\ n_embed = 1
          /\ pc \in {"answer", "done"}
          /\ pc = "done" =>
                /\ response.kind = "no_information"
                /\ response.sources = <<>>
                /\ response.confidence_sum = 0
    /\ FanOutIndexFailure =>
          /\ last_search.result = <<>>
          /\ last_search.embeds = 1
          /\ last_search.image_searches <= 1
          /\ retrieval_error \in {"none", "KeyError", "AttributeError"}

\* The broad search failed and the request was answered.
C14_Witness ==
    /\ pc = "done"
    /\ retrieval_error = "index"
    /\ index_text # {}

\* C14 as stated: whenever a call to the vector index failed during
\* retrieval, the request is answered with the "couldn't find any relevant
\* information" answer, empty sources and confidence 0.0.
C14_AnyIndexFailureEmpties ==
    (pc = "done" /\ (retrieval_error = "index" \/ FanOutIndexFailure)) =>
        /\ response.kind = "no_information"
        /\ response.sources = <<>>
        /\ response.confidence_sum = 0

\* The last search_documents call had its embedding call fail.
FanOutEmbeddingFailure ==
    /\ last_search.status = "error"
    /\ last_search.failed_calls = 1
    /\ last_search.text_searches = 0

\* C15: an embedding-provider error raised while a query is being
\* retrieved aborts the query as a hard failure: it is not converted into
\* an empty result set, so the request is answered neither with the
\* no-information reply nor from retrieved documents.
C15_EmbeddingFailureAborts ==
    (pc = "done" /\ (retrieval_error = "embedding" \/ FanOutEmbeddingFailure)) =>
        response.kind \notin {"no_information", "answer"}

\* What the code does with an embedding error: the empty list, at the call
\* that raised.
EmbeddingFailureEmpties ==
    /\ retrieval_error = "embedding" =>
          /\ relevant_docs = <<>>
          /\ pc = "done" => response.kind = "no_information"
    /\ FanOutEmbeddingFailure =>
          /\ last_search.result = <<>>
          /\ retrieval_error \in {"none", "KeyError", "AttributeError"}

(***************************************************************************)
(* Claims about empty documents.                                           *)
(***************************************************************************)
\* text.strip() is empty.
IsBlank(s) == \A i \in DOMAIN s : IsWs(s[i])

\* C16: segmenting a text that is empty or only whitespace produces no
\* chunk, and no returned chunk has an empty text.
C16_EmptyInputNoChunk ==
    seg_pc = "done" =>
        /\ IsBlank(text) => chunks = <<>>
        /\ \A i \in DOMAIN chunks : chunks[i].text # <<>>

\* What chunk_text returns for a blank text: one chunk of no word.
BlankTextOneChunk ==
    (seg_pc = "done" /\ IsBlank(text)) =>
        /\ Len(chunks) = 1
        /\ IsBlank(chunks[1].text)
        /\ chunks[1].word_count = 0

ImageAbove(m, j) ==
    \E i \in 1..(j - 1) :
        /\ last_search.result[i].content_type = "image"
        /\ last_search.result[i].image_id = last_search.image_hits[m].image_id

\* C18: for a visual query, the fused list of search_documents places an
\* image candidate above every text candidate whose raw score equals the
\* image's raw score, for every raw score, the boundary 1.0 included.
C18_ImageAboveEqualText ==
    (last_search.visual /\ last_search.status = "ok") =>
        \A m \in DOMAIN last_search.image_hits, j \in DOMAIN last_search.result :
            (/\ last_search.result[j].content_type = "text"
             /\ last_search.result[j].score = last_search.image_hits[m].score)
            => ImageAbove(m, j)

\* The part of C18 the code keeps: an image candidate whose raw score is
\* below 1.0 is above every text candidate of that raw score.
ImageAboveEqualTextBelowClamp ==
    (last_search.visual /\ last_search.status = "ok") =>
        \A m \in DOMAIN last_search.image_hits, j \in DOMAIN last_search.result :
            (/\ last_search.result[j].content_type = "text"
             /\ last_search.result[j].score = last_search.image_hits[m].score
             /\ last_search.image_hits[m].score < MAX_SCORE)
            => ImageAbove(m, j)

ImageCandidates(s) == {i \in 1..Len(s) : s[i].content_type = "image"}

\* C19: when the candidate list holds image candidates, the fusion
\* de-duplicates them by image_id, so that each image_id is exactly once in
\* the merged list, and retrieval neither fails nor returns the empty list.
C19_FusionHandlesImages ==
    (Returned /\ ImageCandidates(all_results) # {}) =>
        /\ retrieval_error = "none"
        /\ relevant_docs # <<>>
        /\ \A i \in ImageCandidates(all_results) :
              Cardinality({j \in ImageCandidates(FusionOutput) :
                  FusionOutput[j].image_id = all_results[i].image_id}) = 1

\* What the code does with an image candidate: the duplicate removal raises
\* KeyError on it and retrieval returns the empty list.
ImageCandidateEmptiesRetrieval ==
    (Returned /\ ImageCandidates(all_results) # {}) =>
        /\ retrieval_error = "KeyError"
        /\ relevant_docs = <<>>
        /\ pc = "done" => response.kind = "no_information"

C21_ChunkIdsAndFlags ==
    \A i \in DOMAIN chunks :
        /\ chunks[i].chunk_id = i - 1
        /\ chunks[i].has_code = HasCode(chunks[i].text)
        /\ chunks[i].has_list = HasList(chunks[i].text)
        /\ chunks[i].has_table = HasTable(chunks[i].text)

\* The last chunk returned is made of several sections and has a flag that
\* its first section alone does not have.
C21_Witness ==
    /\ seg_pc = "done"
    /\ chunks # <<>>
    /\ Len(current_chunk) > 1
    /\ LET c == chunks[Len(chunks)]
       IN  /\ c.chunk_id = Len(chunks) - 1
           /\ \/ c.has_code /\ ~HasCode(current_chunk[1])
              \/ c.has_list /\ ~HasList(current_chunk[1])
              \/ c.has_table /\ ~HasTable(current_chunk[1])

\* C22: the keyword fan-out is gated on Stage 1: the per-keyword searches
\* are issued only when the broad search returned fewer than top_k / 2
\* results.  Before the first keyword search all_results holds the results
\* of the broad search only.
C22_KeywordFanOutGated ==
    [][(KeywordSearch /\ kw_i = 1) => 2 * Len(all_results) < top_k]_vars


\* The emergency stage was entered: only Strategy 4 raises these errors.
EmergencyEntered == retrieval_error \in {"AttributeError", "TypeError"}

\* C23: the emergency stage is entered only after the broad search and the
\* fan-out loops are over and only when they left no candidate at all, and
\* at most once per query: once entered, it is not entered again and no
\* further search is made.
C23_EmergencyOnlyWhenEmpty ==
    /\ [][(~EmergencyEntered /\ EmergencyEntered') =>
            /\ all_results = <<>>
            /\ fan_hits = 0
            /\ n_text_search >= 1
            /\ pc = "reference_loop"
            /\ kw_i > Len(keywords)
            /\ ref_i > Len(numbers_terms)]_vars
    /\ [][EmergencyEntered =>
            /\ ~EmergencySearch
            /\ UNCHANGED <<retrieval_error, all_results, n_embed,
                           n_text_search, n_image_search>>]_vars

\* The emergency stage was entered after a broad search and a keyword
\* search over an index that holds a chunk found nothing.
C23_Witness ==
    /\ pc = "done"
    /\ EmergencyEntered
    /\ all_results = <<>>
    /\ index_text # {}
    /\ keywords # <<>>
    /\ n_text_search >= 2


\* Lines 116-127 as a function of the candidate list: duplicates removed,
\* sorted by score, truncated.
FusedList(s, k) == Prefix(SortByScoreDesc(Deduplicate(s)), ResultBudget(k))

\* The candidate lists that hold the candidates of s in another order.
Reordered(s) == {[i \in DOMAIN s |-> s[p[i]]] : p \in Perms(DOMAIN s)}

\* C24: the fused list does not depend on the order in which the results of
\* the fan-out searches were appended to the candidate list: every
\* reordering of the candidates, also with one chunk found with two scores
\* or two chunks of equal score, gives the same ordered list.
C24_OrderIndependent ==
    (Returned /\ retrieval_error = "none" /\ all_results # <<>>) =>
        \A r \in Reordered(all_results) : FusedList(r, top_k) = relevant_docs


\* C25: two results of the fused list that have the same score stand in the
\* order in which their chunks were first seen in the candidate list.
C25_TiesInCandidateOrder ==
    (Returned /\ retrieval_error = "none") =>
        \A i \in DOMAIN relevant_docs, j \in DOMAIN relevant_docs :
            (i < j /\ relevant_docs[i].score = relevant_docs[j].score) =>
                FirstOfKey(relevant_docs[i]) < FirstOfKey(relevant_docs[j])

\* The sort moved a later candidate to the front and left two candidates of
\* equal score behind it, in their order.
C25_Witness ==
    /\ pc = "done"
    /\ Len(relevant_docs) = 3
    /\ relevant_docs[1].score > relevant_docs[2].score
    /\ relevant_docs[2].score = relevant_docs[3].score
    /\ FirstOfKey(relevant_docs[1]) > FirstOfKey(relevant_docs[3])


\* The first section of a chunk.
FirstSection(c) == SplitSections(c.text)[1]

\* C26: chunking is greedy: for two consecutive chunks, the word count of
\* the first plus the word count of the first section of the second exceeds
\* chunk_size, so a chunk is closed only when the next section would not
\* fit.
C26_GreedyMaximal ==
    \A i \in 1..(Len(chunks) - 1) :
        chunks[i].word_count + WordCount(FirstSection(chunks[i + 1]))
            > chunk_size

\* A chunk with room left was closed before a section that fits a chunk of
\* its own but not the room left.
C26_Witness ==
    /\ seg_pc = "done"
    /\ Len(chunks) >= 2
    /\ chunks[1].word_count > 0
    /\ chunks[1].word_count < chunk_size
    /\ WordCount(FirstSection(chunks[2])) <= chunk_size


\* The scores of the first n retrieved documents.
UsedScores(n) == {relevant_docs[i].score : i \in 1..n}

\* C27: an answer reply has exactly context_chunks_used =
\* min(MAX_CONTEXT_CHUNKS, number of retrieved documents) sources, which are
\* the first documents of the ranked list in its order; the confidence is
\* the sum of their scores divided by their number, which is not zero, and
\* so lies between the smallest and the largest of these scores.
C27_SourcesAndConfidence ==
    response.kind = "answer" =>
        LET n == response.context_chunks_used
        IN  /\ n = Min({MAX_CONTEXT_CHUNKS, Len(relevant_docs)})
            /\ n >= 1
            /\ Len(response.sources) = n
            /\ \A i \in 1..n :
                  response.sources[i] =
                      [filename |-> relevant_docs[i].filename,
                       chunk_id |-> relevant_docs[i].chunk_id,
                       score    |-> relevant_docs[i].score]
            /\ response.confidence_sum >= n * Min(UsedScores(n))
            /\ response.confidence_sum <= n * Max(UsedScores(n))
            /\ response.retrieved_docs_count = Len(relevant_docs)

\* An answer over more retrieved documents than the context takes, the
\* ones taken not all of one score.
C27_Witness ==
    /\ pc = "done"
    /\ response.kind = "answer"
    /\ Len(relevant_docs) > MAX_CONTEXT_CHUNKS
    /\ Len(response.sources) = MAX_CONTEXT_CHUNKS
    /\ relevant_docs[1].score > relevant_docs[MAX_CONTEXT_CHUNKS].score


\* The points of the i-th document of the batch that the index holds.
PointsOfDocument(i) ==
    {p \in index_text : p.filename = TempName(i)}
    \cup {p \in index_images :
            \E k \in 1..MaxImages :
                p.image_id = TempName(i) \o "#" \o ToString(k)}

\* C28: ingestion of a document is all-or-nothing: whenever process_pdf_file
\* returned success = False for a document, the index holds no point of
\* that document, also when add_images or a later upsert failed.
C28_AllOrNothing ==
    \A i \in DOMAIN results :
        ~results[i].success => PointsOfDocument(i) = {}

\* What the code keeps of C28: nothing is written before extraction, both
\* embedding steps and the creation of the collections succeeded, and no
\* image point is written before the text points.
WritesAfterEmbeddings ==
    /\ ing_pc \in {"process_pdf", "embed_texts", "embed_captions",
                   "create_collections", "add_documents"}
          => PointsOfDocument(doc_i) = {}
    /\ \A i \in DOMAIN results :
          (~results[i].success /\ results[i].error # "add_images")
              => PointsOfDocument(i) = {}
    /\ \A i \in DOMAIN results :
          (\E p \in PointsOfDocument(i) : p \in index_images)
              => \E p \in PointsOfDocument(i) : p \in index_text


\* C29: on a visual query search_documents is all-or-nothing across the two
\* modalities: when the text search or the image search raised, also on a
\* stored image whose payload lacks a field, it returns the empty list and
\* never the text results alone; a list that is returned comes from both
\* searches; and the exception does not reach the caller, which gets a
\* list and whose retrieval goes on.
C29_VisualAllOrNothing ==
    last_search.visual =>
        /\ last_search.status \in {"ok", "error"}
        /\ last_search.status = "error" => last_search.result = <<>>
        /\ last_search.status = "ok" =>
              /\ last_search.text_searches = 1
              /\ last_search.image_searches = 1
              /\ Len(last_search.result) =
                    Min({last_search.top_k + VISUAL_EXTRA,
                         Len(last_search.text_hits)
                            + Len(last_search.image_hits)})
        /\ retrieval_error \notin {"index", "embedding"}

\* The text search of a visual query found a chunk, the image search raised
\* on a stored image without the payload fields, and the search returned
\* nothing.
C29_Witness ==
    /\ last_search.visual
    /\ last_search.status = "error"
    /\ last_search.failed_calls = 0
    /\ last_search.image_searches = 1
    /\ last_search.text_hits # <<>>
    /\ last_search.result = <<>>
    /\ all_results = <<>>
    /\ pc = "returned"


(***************************************************************************)
(* Claims about the chat session.                                          *)
(***************************************************************************)
\* C30: the message history of a chat session alternates strictly, user
\* first: every accepted prompt appends one user message and then one
\* assistant message, whatever branch the reply takes, so the history has
\* an even length between prompts and an odd one only while a reply is
\* being made; a prompt entered while no document is uploaded appends
\* nothing, so a history with a message has an uploaded document.
C30_StrictAlternation ==
    /\ \A i \in DOMAIN messages :
          messages[i].role = IF i % 2 = 1 THEN "user" ELSE "assistant"
    /\ chat_pc = "idle" => Len(messages) % 2 = 0
    /\ chat_pc = "respond" => Len(messages) % 2 = 1
    /\ messages # <<>> => uploaded_files_info # <<>>

\* Two prompts were answered, the first through the exception handler and
\* the second with an answer.
C30_Witness ==
    /\ chat_pc = "idle"
    /\ Len(messages) = 4
    /\ messages[2].content = "error"
    /\ messages[4].content = "answer"

=============================================================================
